---- MODULE Spec2Model ----
(***************************************************************************)
(* Film-flair: the review / rating-aggregation core of the database        *)
(* (supabase/migrations) as a state machine.                               *)
(*                                                                         *)
(* The committed database is (users, reviews, movies).  Every API request  *)
(* is one statement run in its own READ COMMITTED transaction by a         *)
(* session: the row statement, then the AFTER ROW trigger                  *)
(* update_movie_rating, then the commit.  Uncommitted work lives in tx.    *)
(* average_rating is held in hundredths (DECIMAL(3,2)).                    *)
(***************************************************************************)
EXTENDS Integers, FiniteSets, Sequences, TLC

\* Number of row-changing statements (and user removals) explored.
MaxOps == 2

\* reviews.rating CHECK (rating >= 1 AND rating <= 5)
MinRating == 1
MaxRating == 5
\* DECIMAL(3,2): two decimal digits, kept as an integer number of hundredths
RatingScale == 100

Users == {"u1", "u2"}
Movies == {"m1", "m2"}
\* connections of the API server's pool
Sessions == {1, 2}
\* A role that row level security does not apply to (table owner, service key).
ServiceRole == "service_role"
Actors == Users \cup {ServiceRole}
RatingInputs == {2, 5, 6}
NULL == "NULL"
\* review_text of an insert (reviewText.trim() || null)
TextInputs == {NULL}

\* accounts provisioned later, and the usernames sign-ups and profiles use
NewUsers == {"u3", "u4"}
Accounts == Users \cup NewUsers
Names == {"ann", "bob", "cat"}

VARIABLES
  users,     \* auth.users: the accounts that exist
  reviews,   \* public.reviews, committed rows
  movies,    \* public.movies: id -> [average_rating, total_reviews], committed
  tx,        \* per session: the open transaction (pending row change, trigger state)
  ops,       \* row-changing statements issued so far (also the id generator)
  response,  \* the most recent response sent to a caller
  watchlist, \* public.watchlist, committed rows
  wtx,       \* per session: the watchlist row inserted and not yet committed
  profiles,  \* public.profiles, committed rows
  page,      \* the My Reviews page of a signed-in user: reviews listed, last toast
  schema,    \* the database objects the migrations create, and the outcome of the last run
  toggle,    \* a page with a watchlist button: local in-watchlist set, handler position, toast
  form,      \* the ReviewForm of a movie page: inputs, submitting flag, handler position, toast
  search,    \* the Search page: query typed, results shown, paging, loading flag, calls of handleSearch
  fn         \* the search-movies function: its API key, the last request, upstream outcome and reply

vars == <<users, reviews, movies, tx, ops, response, watchlist, wtx, profiles, page, schema,
          toggle, form, search, fn>>

\* what no request to the tables touches
ext == <<schema, toggle, form, search, fn>>

\* what no review statement touches
app == <<watchlist, wtx, profiles, page, ext>>

NoRow == [id |-> 0, user_id |-> "none", movie_id |-> "none", rating |-> 0, review_text |-> NULL]
NoUpd == [movie |-> "none", average_rating |-> 0, total_reviews |-> 0]
IdleTx == [pc |-> "idle", op |-> "none", actor |-> "none", old |-> NoRow, new |-> NoRow, upd |-> NoUpd]
NoResponse == [op |-> "none", id |-> 0, code |-> "none", rows |-> 0]
NoEntry == [id |-> 0, user_id |-> "none", movie_id |-> "none"]
NoToast == "none"
IdleToggle == [inList |-> {}, pc |-> "idle", movie |-> "none", toast |-> NoToast]
NoBody == [user_id |-> "none", movie_id |-> "none", rating |-> 0, review_text |-> NULL]
\* useState(0), useState(''), useState(false); nobody signed in yet
IdleForm == [user |-> NULL, rating |-> 0, text |-> <<>>, submitting |-> FALSE, pc |-> "idle",
             body |-> NoBody, toast |-> NoToast, submitted |-> 0, last |-> "none"]
\* an empty list of movies
NoMovies == [query |-> <<>>, page |-> 0, n |-> 0]
\* the Search page as mounted: useState(''), useState([]), useState(1), useState(0), useState(0),
\* useState(false); handleSearch has not been called
IdleSearch == [query |-> <<>>, results |-> NoMovies, currentPage |-> 1, totalPages |-> 0,
               totalResults |-> 0, loading |-> FALSE, calls |-> <<>>, toast |-> NoToast]
NoQuery == [kind |-> "absent", chars |-> <<>>]
NoPage == [given |-> FALSE, n |-> 0]
NoRequest == [method |-> "none", parsed |-> FALSE, query |-> NoQuery, page |-> NoPage]
NoReply == [status |-> 0, error |-> NULL, movies |-> NoMovies, total_pages |-> 0,
            total_results |-> 0, current_page |-> 0, called |-> FALSE]
\* the search-movies function with TMDB_API_KEY set, before its first request
IdleFn == [key |-> TRUE, req |-> NoRequest, up |-> "none", reply |-> NoReply]

---------------------------------------------------------------------------
\* Aggregates of update_movie_rating

RECURSIVE SumRatings(_)
SumRatings(S) ==
  IF S = {} THEN 0
  ELSE LET r == CHOOSE x \in S : TRUE IN r.rating + SumRatings(S \ {r})

ReviewsOf(rs, m) == {r \in rs : r.movie_id = m}

\* num/den stored into DECIMAL(3,2): rounded half away from zero, in hundredths
StoreDecimal(num, den) == (2 * RatingScale * num + den) \div (2 * den)

\* SELECT COALESCE(AVG(rating::DECIMAL), 0) FROM reviews WHERE movie_id = m
AvgRating(rs, m) ==
  LET S == ReviewsOf(rs, m)
  IN IF S = {} THEN 0 ELSE StoreDecimal(SumRatings(S), Cardinality(S))

\* SELECT COUNT(*) FROM reviews WHERE movie_id = m
CountReviews(rs, m) == Cardinality(ReviewsOf(rs, m))

\* COALESCE(NEW.movie_id, OLD.movie_id); NEW is null in a DELETE trigger
TargetMovie(old, new) == IF new # NoRow THEN new.movie_id ELSE old.movie_id

---------------------------------------------------------------------------
\* Row level security and constraints

BypassRLS(a) == a = ServiceRole

\* the reviews table with no insert policy tying user_id to the caller
ReviewInsertCheck_Open(a, row) == TRUE

\* "Users can create their own reviews": FOR INSERT WITH CHECK (auth.uid() = user_id)
ReviewInsertCheck(a, row) == BypassRLS(a) \/ a = row.user_id

\* the reviews table with no update policy restricting rows to their author
ReviewUpdateUsing_Open(a, row) == TRUE

\* "Users can update their own reviews": FOR UPDATE USING (auth.uid() = user_id)
ReviewUpdateUsing(a, row) == BypassRLS(a) \/ a = row.user_id

\* "Users can delete their own reviews": FOR DELETE USING (auth.uid() = user_id)
ReviewDeleteUsing(a, row) == BypassRLS(a) \/ a = row.user_id

\* "Reviews are viewable by everyone": FOR SELECT USING (true)
ReviewSelectUsing(a, row) == TRUE

\* "Movies are viewable by everyone": FOR SELECT USING (true)
MovieSelectUsing(a, m) == TRUE

\* a visitor who is not signed in (the anon role)
Anon == "anon"
Readers == Actors \cup {Anon}

\* SELECT * FROM reviews / movies as actor a
VisibleReviews(a) == {r \in reviews : BypassRLS(a) \/ ReviewSelectUsing(a, r)}
VisibleMovies(a) == {m \in Movies : BypassRLS(a) \/ MovieSelectUsing(a, m)}

\* movies: RLS enabled, the only policy is FOR SELECT, so UPDATE matches no row
MovieUpdateUsing_Open(a, m) == TRUE

MovieUpdateUsing(a, m) == BypassRLS(a)

\* CHECK (rating >= 1 AND rating <= 5)
RatingCheck(r) == r >= MinRating /\ r <= MaxRating

\* the reviews table without its UNIQUE(user_id, movie_id) constraint
UniqueKeyFree_Never(rs, id, u, m) == TRUE

\* UNIQUE(user_id, movie_id): no other committed row has the key
UniqueKeyFree(rs, id, u, m) == ~\E x \in rs : x.id # id /\ x.user_id = u /\ x.movie_id = m

\* user_id REFERENCES auth.users(id)
UserExists(u) == u \in users

---------------------------------------------------------------------------
\* Locks of the open transactions

InFlight(t) == tx[t].pc # "idle"

\* a request runs on the first free connection of the pool, once the previous
\* response has been delivered
Free(t) ==
  /\ response = NoResponse
  /\ tx[t].pc = "idle"
  /\ \A s \in Sessions : s < t => InFlight(s)

\* another transaction has updated or deleted row id and not yet ended
RowLocked(id, t) == \E s \in Sessions \ {t} : InFlight(s) /\ tx[s].old # NoRow /\ tx[s].old.id = id

\* a uniqueness test that looks at committed rows only and never waits
KeyHeld_Never(u, m, t) == FALSE

\* another open transaction has written or removed an index entry for the key:
\* a unique-index insertion waits for it to end
KeyHeld(u, m, t) ==
  \E s \in Sessions \ {t} :
    /\ InFlight(s)
    /\ \/ tx[s].new # NoRow /\ tx[s].new.user_id = u /\ tx[s].new.movie_id = m
       \/ tx[s].old # NoRow /\ tx[s].old.user_id = u /\ tx[s].old.movie_id = m

\* another open transaction's trigger has updated movie row m
MovieLocked(m, t) == \E s \in Sessions \ {t} : tx[s].pc = "triggered" /\ tx[s].upd.movie = m

---------------------------------------------------------------------------
\* The schema migration 20250831110118

\* applications of the migration that are counted (later ones are not told apart)
MaxRuns == 2

\* rows of the seed INSERT
SeedRows == 5

Tables == {"movies", "profiles", "reviews", "watchlist"}

\* the columns of public.movies both migrations declare
BaseCols == {"id", "title", "genre", "release_year", "director", "synopsis", "poster_url",
             "trailer_url", "runtime", "average_rating", "total_reviews", "created_at", "updated_at"}

\* CREATE TABLE public.movies of migration 20250831105329 has a column "cast"
Cols105329 == BaseCols \cup {"cast"}

\* CREATE TABLE IF NOT EXISTS public.movies of this migration has "actors" instead
Cols110118 == BaseCols \cup {"actors"}

\* ALTER TABLE public.movies ADD COLUMN IF NOT EXISTS ...
AddedCols == {"actors", "runtime", "average_rating", "total_reviews", "poster_url",
              "trailer_url", "synopsis", "genre", "director", "release_year"}

Policies ==
  {[tbl |-> "movies", name |-> "Movies are viewable by everyone"],
   [tbl |-> "profiles", name |-> "Profiles are viewable by everyone"],
   [tbl |-> "profiles", name |-> "Users can create their own profile"],
   [tbl |-> "profiles", name |-> "Users can update their own profile"],
   [tbl |-> "reviews", name |-> "Reviews are viewable by everyone"],
   [tbl |-> "reviews", name |-> "Users can create their own reviews"],
   [tbl |-> "reviews", name |-> "Users can update their own reviews"],
   [tbl |-> "reviews", name |-> "Users can delete their own reviews"],
   [tbl |-> "watchlist", name |-> "Users can view their own watchlist"],
   [tbl |-> "watchlist", name |-> "Users can add to their own watchlist"],
   [tbl |-> "watchlist", name |-> "Users can remove from their own watchlist"]}

RatingTriggers ==
  {[tbl |-> "reviews", name |-> "update_movie_rating_on_insert"],
   [tbl |-> "reviews", name |-> "update_movie_rating_on_update"],
   [tbl |-> "reviews", name |-> "update_movie_rating_on_delete"]}

Triggers ==
  RatingTriggers \cup
  {[tbl |-> "movies", name |-> "update_movies_updated_at"],
   [tbl |-> "profiles", name |-> "update_profiles_updated_at"],
   [tbl |-> "reviews", name |-> "update_reviews_updated_at"],
   [tbl |-> "auth.users", name |-> "on_auth_user_created"]}

Functions == {"update_movie_rating", "update_updated_at_column", "handle_new_user"}

\* a database no migration has run on
EmptySchema ==
  [tables |-> {}, movieCols |-> {}, rls |-> {}, policies |-> {}, functions |-> {},
   onConflict |-> FALSE, triggers |-> {}, rows |-> 0, outcome |-> "none", runs |-> 0]

\* what the statements of migration 20250831105329 set up
Schema105329 ==
  [tables |-> Tables, movieCols |-> Cols105329, rls |-> Tables, policies |-> Policies,
   functions |-> Functions, onConflict |-> FALSE, triggers |-> Triggers, rows |-> SeedRows,
   outcome |-> "none", runs |-> 0]

\* CREATE TABLE IF NOT EXISTS for the four tables, then the ADD COLUMN IF NOT EXISTS list
CreateTables(s) ==
  [s EXCEPT !.tables = @ \cup Tables,
            !.movieCols = IF "movies" \in s.tables THEN @ \cup AddedCols ELSE Cols110118]

\* ALTER TABLE ... ENABLE ROW LEVEL SECURITY
EnableRls(s) == [s EXCEPT !.rls = @ \cup Tables]

\* a migration that creates its policies without looking for them first
PolicyMissing_Always(s, p) == TRUE

\* IF NOT EXISTS (SELECT 1 FROM pg_policies WHERE schemaname = .. AND tablename = ..
\* AND policyname = ..)
PolicyMissing(s, p) == p \notin s.policies

\* DO $$ BEGIN IF NOT EXISTS (...) THEN CREATE POLICY ... END IF; END $$: CREATE POLICY
\* raises duplicate_object when the table has a policy of that name
CreatePolicy(s, p) ==
  IF s.outcome = "error" \/ ~PolicyMissing(s, p) THEN s
  ELSE IF p \in s.policies THEN [s EXCEPT !.outcome = "error"]
  ELSE [s EXCEPT !.policies = @ \cup {p}]

RECURSIVE CreatePolicies(_, _)
CreatePolicies(s, ps) ==
  IF ps = {} THEN s
  ELSE LET p == CHOOSE q \in ps : TRUE IN CreatePolicies(CreatePolicy(s, p), ps \ {p})

\* CREATE OR REPLACE FUNCTION for the three functions; handle_new_user() gets
\* ON CONFLICT (user_id) DO NOTHING
ReplaceFunctions(s) ==
  IF s.outcome = "error" THEN s
  ELSE [s EXCEPT !.functions = @ \cup Functions, !.onConflict = TRUE]

\* IF NOT EXISTS (SELECT 1 FROM pg_trigger WHERE tgname = ..): the name alone is looked up
TriggerMissing(s, g) == ~\E h \in s.triggers : h.name = g.name

CreateTrigger(s, g) ==
  IF s.outcome = "error" \/ ~TriggerMissing(s, g) THEN s
  ELSE IF g \in s.triggers THEN [s EXCEPT !.outcome = "error"]
  ELSE [s EXCEPT !.triggers = @ \cup {g}]

RECURSIVE CreateTriggers(_, _)
CreateTriggers(s, gs) ==
  IF gs = {} THEN s
  ELSE LET g == CHOOSE h \in gs : TRUE IN CreateTriggers(CreateTrigger(s, g), gs \ {g})

\* WHERE NOT EXISTS (SELECT 1 FROM public.movies LIMIT 1)
SeedGuard(s) == s.rows = 0

\* INSERT INTO public.movies ... SELECT * FROM (VALUES ...) WHERE NOT EXISTS (...)
SeedMovies(s) ==
  IF s.outcome = "error" \/ ~SeedGuard(s) THEN s
  ELSE [s EXCEPT !.rows = @ + SeedRows]

\* the migration file run from top to bottom in one transaction: an error undoes
\* every statement of the run
Migrate110118(s) ==
  LET start == [s EXCEPT !.outcome = "running"]
      run == SeedMovies(CreateTriggers(ReplaceFunctions(
               CreatePolicies(EnableRls(CreateTables(start)), Policies)), Triggers))
  IN IF run.outcome = "error" THEN [s EXCEPT !.outcome = "error"]
     ELSE [run EXCEPT !.outcome = "ok"]

\* the database the application runs against: the migration applied once
Migrated == [Migrate110118(EmptySchema) EXCEPT !.runs = 1]

---------------------------------------------------------------------------
Init ==
  /\ users = Users
  /\ reviews = {}
  /\ movies = [m \in Movies |-> [average_rating |-> 0, total_reviews |-> 0]]
  /\ tx = [t \in Sessions |-> IdleTx]
  /\ ops = 0
  /\ response = NoResponse
  /\ watchlist = {}
  /\ wtx = [t \in Sessions |-> NoEntry]
  /\ profiles = {[user_id |-> "u1", username |-> "ann"], [user_id |-> "u2", username |-> "bob"]}
  /\ page = [listed |-> {}, toast |-> NoToast]
  /\ schema = Migrated
  /\ toggle = IdleToggle
  /\ form = IdleForm
  /\ search = IdleSearch
  /\ fn = IdleFn

Respond(op, id, code, rows) ==
  response' = [op |-> op, id |-> id, code |-> code, rows |-> rows]

\* the statement raised an error (or matched no row): nothing is written
Finish(op, id, code) ==
  /\ Respond(op, id, code, 0)
  /\ UNCHANGED <<users, reviews, movies, tx, ops>>
  /\ UNCHANGED app

\* the statement changed a row: the change is pending until the commit
Pend(t, op, a, old, new) ==
  /\ ops < MaxOps
  /\ ops' = ops + 1
  /\ tx' = [tx EXCEPT ![t] = [pc |-> "wrote", op |-> op, actor |-> a,
                              old |-> old, new |-> new, upd |-> NoUpd]]
  /\ UNCHANGED <<users, reviews, movies, response>>
  /\ UNCHANGED app

\* INSERT INTO reviews (user_id, movie_id, rating, review_text) as actor a
InsertReview(t, a, u, m, r, txt) ==
  /\ Free(t)
  /\ \E row \in {[id |-> ops + 1, user_id |-> u, movie_id |-> m, rating |-> r, review_text |-> txt]} :
        IF ~ReviewInsertCheck(a, row) THEN Finish("insert", 0, "insufficient_privilege")
        ELSE IF ~RatingCheck(r) THEN Finish("insert", 0, "check_violation")
        ELSE /\ ~KeyHeld(u, m, t)
             /\ IF ~UniqueKeyFree(reviews, row.id, u, m) THEN Finish("insert", 0, "unique_violation")
                ELSE IF ~UserExists(u) THEN Finish("insert", 0, "foreign_key_violation")
                ELSE Pend(t, "insert", a, NoRow, row)

\* the row with the columns named in the request body replaced
Merge(old, patch) ==
  [id |-> old.id,
   user_id |-> IF "user_id" \in DOMAIN patch THEN patch.user_id ELSE old.user_id,
   movie_id |-> IF "movie_id" \in DOMAIN patch THEN patch.movie_id ELSE old.movie_id,
   rating |-> IF "rating" \in DOMAIN patch THEN patch.rating ELSE old.rating,
   review_text |-> IF "review_text" \in DOMAIN patch THEN patch.review_text ELSE old.review_text]

\* UPDATE reviews SET <columns of patch> WHERE id = id, as actor a
UpdateReview(t, a, id, patch) ==
  /\ Free(t)
  /\ IF ~\E x \in reviews : x.id = id /\ ReviewUpdateUsing(a, x)
       THEN Finish("update", id, "ok")
     ELSE \E old \in {x \in reviews : x.id = id} : \E new \in {Merge(old, patch)} :
       /\ ~RowLocked(id, t)
       /\ IF ~ReviewUpdateUsing(a, new) THEN Finish("update", id, "insufficient_privilege")
          ELSE IF ~RatingCheck(new.rating) THEN Finish("update", id, "check_violation")
          ELSE /\ (new.user_id # old.user_id \/ new.movie_id # old.movie_id)
                    => ~KeyHeld(new.user_id, new.movie_id, t)
               /\ IF ~UniqueKeyFree(reviews, id, new.user_id, new.movie_id)
                    THEN Finish("update", id, "unique_violation")
                  ELSE IF ~UserExists(new.user_id) THEN Finish("update", id, "foreign_key_violation")
                  ELSE Pend(t, "update", a, old, new)

\* DELETE FROM reviews WHERE id = id, as actor a
DeleteReview(t, a, id) ==
  /\ Free(t)
  /\ IF ~\E x \in reviews : x.id = id /\ ReviewDeleteUsing(a, x)
       THEN Finish("delete", id, "ok")
     ELSE \E old \in {x \in reviews : x.id = id} :
       /\ ~RowLocked(id, t)
       /\ Pend(t, "delete", a, old, NoRow)

\* what the transaction's own statements see: the committed rows and its own change
Snapshot(t) == (reviews \ {tx[t].old}) \cup ({tx[t].new} \ {NoRow})

\* AFTER INSERT/UPDATE/DELETE ... FOR EACH ROW EXECUTE FUNCTION update_movie_rating():
\* UPDATE movies SET average_rating = (...), total_reviews = (...) WHERE id = target.
\* The sub-selects read the snapshot taken when the UPDATE starts; the row update
\* waits for a concurrent writer of the movie row and is then applied as computed.
TriggerRecompute(t) ==
  /\ response = NoResponse
  /\ tx[t].pc = "wrote"
  /\ LET target == TargetMovie(tx[t].old, tx[t].new)
         upd == [movie |-> target,
                 average_rating |-> AvgRating(Snapshot(t), target),
                 total_reviews |-> CountReviews(Snapshot(t), target)]
     IN IF ~MovieUpdateUsing(tx[t].actor, target)
          THEN tx' = [tx EXCEPT ![t].pc = "triggered"]
        ELSE IF MovieLocked(target, t)
          THEN tx' = [tx EXCEPT ![t].pc = "blocked", ![t].upd = upd]
        ELSE tx' = [tx EXCEPT ![t].pc = "triggered", ![t].upd = upd]
  /\ UNCHANGED <<users, reviews, movies, ops, response>>
  /\ UNCHANGED app

\* the writer of the movie row has ended: the waiting UPDATE goes on
ResumeRecompute(t) ==
  /\ response = NoResponse
  /\ tx[t].pc = "blocked"
  /\ ~MovieLocked(tx[t].upd.movie, t)
  /\ tx' = [tx EXCEPT ![t].pc = "triggered"]
  /\ UNCHANGED <<users, reviews, movies, ops, response>>
  /\ UNCHANGED app

\* a trigger whose error is caught and dropped: the row change is kept
TriggerFault_KeepsRow(t) ==
  /\ response = NoResponse
  /\ tx[t].pc \in {"wrote", "blocked"}
  /\ reviews' = Snapshot(t)
  /\ tx' = [tx EXCEPT ![t] = IdleTx]
  /\ Respond(tx[t].op, IF tx[t].old # NoRow THEN tx[t].old.id ELSE 0, "trigger_error", 0)
  /\ UNCHANGED <<users, movies, ops>>
  /\ UNCHANGED app

\* the trigger raises (a fault, a timeout while waiting): the statement and its
\* transaction are rolled back
TriggerFault(t) ==
  /\ response = NoResponse
  /\ tx[t].pc \in {"wrote", "blocked"}
  /\ tx' = [tx EXCEPT ![t] = IdleTx]
  /\ Respond(tx[t].op, IF tx[t].old # NoRow THEN tx[t].old.id ELSE 0, "trigger_error", 0)
  /\ UNCHANGED <<users, reviews, movies, ops>>
  /\ UNCHANGED app

ApplyUpd(mv, upd) ==
  IF upd = NoUpd THEN mv
  ELSE [mv EXCEPT ![upd.movie] = [average_rating |-> upd.average_rating,
                                  total_reviews |-> upd.total_reviews]]

CommitTx(t) ==
  /\ response = NoResponse
  /\ tx[t].pc = "triggered"
  /\ reviews' = Snapshot(t)
  /\ movies' = ApplyUpd(movies, tx[t].upd)
  /\ tx' = [tx EXCEPT ![t] = IdleTx]
  /\ Respond(tx[t].op, IF tx[t].new # NoRow THEN tx[t].new.id ELSE tx[t].old.id, "ok", 1)
  /\ UNCHANGED <<users, ops>>
  /\ UNCHANGED app

\* DELETE FROM auth.users by an administrator: reviews, watchlist and profiles
\* reference auth.users(id) ON DELETE CASCADE, each cascaded review row firing
\* update_movie_rating_on_delete
DeleteUser(u) ==
  /\ response = NoResponse
  /\ u \in users
  /\ ops < MaxOps
  /\ \A t \in Sessions : InFlight(t) => tx[t].old.user_id # u /\ tx[t].new.user_id # u
  /\ LET gone == {r \in reviews : r.user_id = u}
         affected == {r.movie_id : r \in gone}
         rest == reviews \ gone
     IN /\ \A t \in Sessions : tx[t].pc = "triggered" => tx[t].upd.movie \notin affected
        /\ reviews' = rest
        /\ movies' = [m \in Movies |->
                        IF m \in affected
                        THEN [average_rating |-> AvgRating(rest, m), total_reviews |-> CountReviews(rest, m)]
                        ELSE movies[m]]
  /\ users' = users \ {u}
  /\ \A t \in Sessions : wtx[t].user_id # u
  /\ watchlist' = {w \in watchlist : w.user_id # u}
  /\ profiles' = {p \in profiles : p.user_id # u}
  /\ ops' = ops + 1
  /\ UNCHANGED <<tx, response, wtx, page, ext>>

\* review ids a request can name: the committed rows' and one that names no row
TargetIds == {r.id : r \in reviews} \cup {ops + 1}

\* request bodies of an update: the columns an API client can set
RatingPatches == {[rating |-> r] : r \in RatingInputs}
Patches == RatingPatches \cup {[movie_id |-> m] : m \in Movies} \cup {[user_id |-> u] : u \in Users}

\* the caller has received the response (const { error } = await ...)
Deliver ==
  /\ response # NoResponse
  /\ response' = NoResponse
  /\ UNCHANGED <<users, reviews, movies, tx, ops>>
  /\ UNCHANGED app

\* the requests of API clients acting as the roles A
InsertRequest(A) ==
  \E t \in Sessions : Free(t) /\ \E a \in A, u \in Users, m \in Movies, r \in RatingInputs, txt \in TextInputs :
    InsertReview(t, a, u, m, r, txt)

UpdateRequest(A, P) ==
  \E t \in Sessions : Free(t) /\ \E a \in A, id \in TargetIds, patch \in P :
    UpdateReview(t, a, id, patch)

DeleteRequest(A) ==
  \E t \in Sessions : Free(t) /\ \E a \in A, id \in TargetIds : DeleteReview(t, a, id)

Step(A, P) ==
  \/ InsertRequest(A)
  \/ UpdateRequest(A, P)
  \/ DeleteRequest(A)
  \/ \E t \in Sessions : TriggerRecompute(t)
  \/ \E t \in Sessions : ResumeRecompute(t)
  \/ \E t \in Sessions : TriggerFault(t)
  \/ \E t \in Sessions : CommitTx(t)
  \/ \E u \in Users : DeleteUser(u)
  \/ Deliver

Next == Step(Actors, Patches)

Spec == Init /\ [][Next]_vars

\* every request made with the service key (no row level security in play), and
\* no update moving a review to another movie or user
NextSvc == Step({ServiceRole}, RatingPatches)

SpecSvc == Init /\ [][NextSvc]_vars

---------------------------------------------------------------------------
\* A direct write to the catalog

\* values a client can put in an UPDATE of public.movies
MovieWrites == {[average_rating |-> 500, total_reviews |-> 9]}

\* UPDATE movies SET average_rating = .., total_reviews = .. WHERE id = m, as actor a
UpdateMovie(a, m, w) ==
  /\ response = NoResponse
  /\ \A t \in Sessions : tx[t].pc = "triggered" => tx[t].upd.movie # m
  /\ IF ~MovieUpdateUsing(a, m) THEN Finish("update_movie", 0, "ok")
     ELSE /\ movies' = [movies EXCEPT ![m] = w]
          /\ Respond("update_movie", 0, "ok", 1)
          /\ UNCHANGED <<users, reviews, tx, ops>>
          /\ UNCHANGED app

---------------------------------------------------------------------------
\* Watchlist

\* "Users can add to their own watchlist": FOR INSERT WITH CHECK (auth.uid() = user_id)
WatchInsertCheck(a, row) == BypassRLS(a) \/ a = row.user_id

\* "Users can view their own watchlist": FOR SELECT USING (auth.uid() = user_id)
WatchSelectUsing(a, row) == BypassRLS(a) \/ a = row.user_id

\* the rows of ws a SELECT on watchlist returns to actor a
VisibleWatch(a, ws) == {w \in ws : WatchSelectUsing(a, w)}

\* a DELETE policy on watchlist that admits every row
WatchDeleteUsing_Open(a, row) == TRUE

\* "Users can remove from their own watchlist": FOR DELETE USING (auth.uid() = user_id)
WatchDeleteUsing(a, row) == BypassRLS(a) \/ a = row.user_id

\* fetchWatchlist: select(...).eq('user_id', user.id) as the signed-in user a
FetchWatchlist(a, ws) == {w \in VisibleWatch(a, ws) : w.user_id = a}

\* movie_id UUID NOT NULL REFERENCES public.movies(id)
MovieExists(m) == m \in Movies

\* watchlist UNIQUE(user_id, movie_id): no committed row has the key
WatchKeyFree(ws, u, m) == ~\E w \in ws : w.user_id = u /\ w.movie_id = m

\* a uniqueness test on the watchlist that never waits for an open insert
WatchKeyHeld_Never(u, m, t) == FALSE

\* another open transaction has inserted the key: the insert waits for its end
WatchKeyHeld(u, m, t) ==
  \E s \in Sessions \ {t} : wtx[s] # NoEntry /\ wtx[s].user_id = u /\ wtx[s].movie_id = m

\* a watchlist request runs on the first connection with no open watchlist insert
WatchFree(t) ==
  /\ response = NoResponse
  /\ wtx[t] = NoEntry
  /\ \A s \in Sessions : s < t => wtx[s] # NoEntry

\* supabase.from('watchlist').insert({ user_id, movie_id }) as actor a
InsertWatch(t, a, u, m) ==
  /\ WatchFree(t)
  /\ \E row \in {[id |-> ops + 1, user_id |-> u, movie_id |-> m]} :
        IF ~WatchInsertCheck(a, row) THEN Finish("watch_insert", 0, "insufficient_privilege")
        ELSE /\ ~WatchKeyHeld(u, m, t)
             /\ IF ~WatchKeyFree(watchlist, u, m) THEN Finish("watch_insert", 0, "unique_violation")
                ELSE IF ~UserExists(u) \/ ~MovieExists(m)
                  THEN Finish("watch_insert", 0, "foreign_key_violation")
                ELSE /\ ops < MaxOps
                     /\ ops' = ops + 1
                     /\ wtx' = [wtx EXCEPT ![t] = row]
                     /\ UNCHANGED <<users, reviews, movies, tx, response, watchlist, profiles, page, ext>>

\* an insert that also counts the entry in the movie's total_reviews
CommitWatch_Counts(t) ==
  /\ response = NoResponse
  /\ wtx[t] # NoEntry
  /\ watchlist' = watchlist \cup {wtx[t]}
  /\ movies' = [movies EXCEPT ![wtx[t].movie_id].total_reviews = @ + 1]
  /\ wtx' = [wtx EXCEPT ![t] = NoEntry]
  /\ Respond("watch_insert", wtx[t].id, "ok", 1)
  /\ UNCHANGED <<users, reviews, tx, ops, profiles, page, ext>>

\* the insert commits: no trigger is defined on public.watchlist
CommitWatch(t) ==
  /\ response = NoResponse
  /\ wtx[t] # NoEntry
  /\ watchlist' = watchlist \cup {wtx[t]}
  /\ wtx' = [wtx EXCEPT ![t] = NoEntry]
  /\ Respond("watch_insert", wtx[t].id, "ok", 1)
  /\ UNCHANGED <<users, reviews, movies, tx, ops, profiles, page, ext>>

\* supabase.from('watchlist').delete().eq('user_id', u).eq('movie_id', m) for the
\* movies ms, as actor a (handleRemoveFromWatchlist: one movie; clearAllWatchlist: all)
DeleteWatch(a, u, ms) ==
  /\ response = NoResponse
  /\ LET rows == {w \in watchlist : w.user_id = u /\ w.movie_id \in ms /\ WatchDeleteUsing(a, w)}
     IN /\ watchlist' = watchlist \ rows
        /\ Respond("watch_delete", 0, "ok", Cardinality(rows))
  /\ UNCHANGED <<users, reviews, movies, tx, ops, wtx, profiles, page, ext>>

---------------------------------------------------------------------------
\* Accounts and profiles

\* e-mail addresses and raw_user_meta_data->>'username' of a sign-up
Emails == {[local |-> "ann", domain |-> "x.org"], [local |-> "cat", domain |-> "y.org"]}
\* an account with no e-mail address (phone sign-up)
NoEmail == [local |-> NULL, domain |-> NULL]
EmailInputs == Emails \cup {NoEmail}
MetaNames == {NULL, "bob"}

\* split_part(email, '@', 1)
SplitPartLocal(email) == IF email = NoEmail THEN NULL ELSE email.local

\* COALESCE(NEW.raw_user_meta_data->>'username', split_part(NEW.email, '@', 1))
DerivedUsername(meta, email) == IF meta # NULL THEN meta ELSE SplitPartLocal(email)

\* profiles.username with no UNIQUE constraint
ProfileNameFree_Always(ps, name) == TRUE

\* username TEXT UNIQUE
ProfileNameFree(ps, name) == ~\E q \in ps : q.username = name

\* user_id UUID NOT NULL UNIQUE
ProfileUserFree(ps, u) == ~\E q \in ps : q.user_id = u

\* "Users can create their own profile": FOR INSERT WITH CHECK (auth.uid() = user_id)
ProfileInsertCheck(a, row) == BypassRLS(a) \/ a = row.user_id

\* an update policy on profiles that lets every identity through
ProfileUpdateUsing_Open(a, row) == TRUE

\* "Users can update their own profile": FOR UPDATE USING (auth.uid() = user_id)
ProfileUpdateUsing(a, row) == BypassRLS(a) \/ a = row.user_id

\* "Profiles are viewable by everyone": FOR SELECT USING (true)
ProfileSelectUsing(a, row) == TRUE

\* the profiles a SELECT returns to reader a (signed in or not)
VisibleProfiles(a) == {q \in profiles : ProfileSelectUsing(a, q)}

\* profiles has no DELETE policy: a DELETE matches no row
ProfileDeleteUsing(a, row) == BypassRLS(a)

\* INSERT INTO auth.users by the identity provider, with the AFTER INSERT trigger
\* on_auth_user_created -> handle_new_user(): an error of the trigger undoes the
\* insert of the account
SignUp(id, email, meta) ==
  /\ response = NoResponse
  /\ id \notin users
  /\ LET name == DerivedUsername(meta, email)
     IN IF ~ProfileUserFree(profiles, id)      \* ON CONFLICT (user_id) DO NOTHING
          THEN /\ users' = users \cup {id}
               /\ Respond("signup", 0, "ok", 1)
               /\ UNCHANGED <<reviews, movies, tx, ops, watchlist, wtx, profiles, page, ext>>
        ELSE IF name = NULL THEN Finish("signup", 0, "not_null_violation")
        ELSE IF ~ProfileNameFree(profiles, name) THEN Finish("signup", 0, "unique_violation")
        ELSE /\ users' = users \cup {id}
             /\ profiles' = profiles \cup {[user_id |-> id, username |-> name]}
             /\ Respond("signup", 0, "ok", 1)
             /\ UNCHANGED <<reviews, movies, tx, ops, watchlist, wtx, page, ext>>

\* INSERT INTO profiles (user_id, username) as actor a
InsertProfile(a, u, name) ==
  /\ response = NoResponse
  /\ \E row \in {[user_id |-> u, username |-> name]} :
        IF ~ProfileInsertCheck(a, row) THEN Finish("profile_insert", 0, "insufficient_privilege")
        ELSE IF ~ProfileUserFree(profiles, u) \/ ~ProfileNameFree(profiles, name)
          THEN Finish("profile_insert", 0, "unique_violation")
        ELSE IF ~UserExists(u) THEN Finish("profile_insert", 0, "foreign_key_violation")
        ELSE /\ profiles' = profiles \cup {row}
             /\ Respond("profile_insert", 0, "ok", 1)
             /\ UNCHANGED <<users, reviews, movies, tx, ops, watchlist, wtx, page, ext>>

\* UPDATE profiles SET username = name WHERE user_id = u, as actor a
UpdateProfile(a, u, name) ==
  /\ response = NoResponse
  /\ IF ~\E q \in profiles : q.user_id = u /\ ProfileUpdateUsing(a, q)
       THEN Finish("profile_update", 0, "ok")
     ELSE \E old \in {q \in profiles : q.user_id = u} :
       IF ~ProfileNameFree(profiles \ {old}, name) THEN Finish("profile_update", 0, "unique_violation")
       ELSE /\ profiles' = (profiles \ {old}) \cup {[user_id |-> u, username |-> name]}
            /\ Respond("profile_update", 0, "ok", 1)
            /\ UNCHANGED <<users, reviews, movies, tx, ops, watchlist, wtx, page, ext>>

\* DELETE FROM profiles WHERE user_id = u, as actor a
DeleteProfile(a, u) ==
  /\ response = NoResponse
  /\ LET rows == {q \in profiles : q.user_id = u /\ ProfileDeleteUsing(a, q)}
     IN /\ profiles' = profiles \ rows
        /\ Respond("profile_delete", 0, "ok", Cardinality(rows))
  /\ UNCHANGED <<users, reviews, movies, tx, ops, watchlist, wtx, page, ext>>

SignUpRequest == \E id \in NewUsers, email \in EmailInputs, meta \in MetaNames : SignUp(id, email, meta)

ProfileInsertRequest == \E a \in Accounts, u \in Accounts, name \in Names : a \in users /\ InsertProfile(a, u, name)

ProfileUpdateRequest == \E a \in Accounts, u \in Accounts, name \in Names : a \in users /\ UpdateProfile(a, u, name)

ProfileDeleteRequest == \E a \in Accounts, u \in Accounts : a \in users /\ DeleteProfile(a, u)


\* requests sent one at a time: each begins after the previous transaction ended
SeqRequest(A, P) ==
  /\ \A t \in Sessions : ~InFlight(t)
  /\ InsertRequest(A) \/ UpdateRequest(A, P) \/ DeleteRequest(A)

NextSeq ==
  \/ SeqRequest(Actors, Patches)
  \/ \E t \in Sessions : TriggerRecompute(t)
  \/ \E t \in Sessions : TriggerFault(t)
  \/ \E t \in Sessions : CommitTx(t)
  \/ \E u \in Users : DeleteUser(u)
  \/ Deliver

SpecSeq == Init /\ [][NextSeq]_vars

\* the watchlist requests of signed-in users, and their direct writes to movies
AddWatchRequest ==
  \E t \in Sessions : WatchFree(t) /\ \E a \in Users, u \in Users, m \in Movies : InsertWatch(t, a, u, m)

RemoveWatchRequest == \E a \in Users, u \in Users, m \in Movies : DeleteWatch(a, u, {m})

ClearWatchRequest == \E a \in Users, u \in Users : DeleteWatch(a, u, Movies)

MovieWriteRequest == \E a \in Users, m \in Movies, w \in MovieWrites : UpdateMovie(a, m, w)

NextWatch ==
  \/ Step(Actors, RatingPatches)
  \/ AddWatchRequest
  \/ \E t \in Sessions : CommitWatch(t)
  \/ RemoveWatchRequest
  \/ ClearWatchRequest
  \/ MovieWriteRequest

SpecWatch == Init /\ [][NextWatch]_vars

\* the watchlist requests alone: adds, removes and clears of signed-in users
NextList ==
  \/ AddWatchRequest
  \/ \E t \in Sessions : CommitWatch(t)
  \/ RemoveWatchRequest
  \/ ClearWatchRequest
  \/ Deliver

SpecList == Init /\ [][NextList]_vars

\* every kind of request that could reach the catalog: review mutations, direct
\* writes to movies, watchlist requests and profile edits
NextCatalog ==
  \/ NextWatch
  \/ ProfileUpdateRequest

SpecCatalog == Init /\ [][NextCatalog]_vars

NextAccounts ==
  \/ SignUpRequest
  \/ ProfileInsertRequest
  \/ ProfileUpdateRequest
  \/ ProfileDeleteRequest
  \/ \E u \in Accounts : DeleteUser(u)
  \/ MovieWriteRequest
  \/ Deliver

SpecAccounts == Init /\ [][NextAccounts]_vars

---------------------------------------------------------------------------
\* The My Reviews page

\* the signed-in user of the page (useAuth())
PageUser == "u1"

DeletedToast == "Review deleted"
ErrorToast == "Error"

\* fetchReviews: supabase.from('reviews').select('*').eq('user_id', user.id), then
\* setReviews(...)
LoadMyReviews ==
  /\ response = NoResponse
  /\ page' = [listed |-> {r.id : r \in {x \in VisibleReviews(PageUser) : x.user_id = PageUser}},
              toast |-> NoToast]
  /\ page' # page
  /\ UNCHANGED <<users, reviews, movies, tx, ops, response, watchlist, wtx, profiles, ext>>

\* handleDeleteReview sends the request for a review of the list:
\* await supabase.from('reviews').delete().eq('id', reviewId).eq('user_id', user.id)
PageDeleteRequest ==
  \E t \in Sessions : Free(t) /\ \E id \in page.listed : DeleteReview(t, PageUser, id)

\* the await returns: the result is not destructured, so whatever the response,
\* setReviews(prev => prev.filter(review => review.id !== reviewId)) and the
\* "Review deleted" toast follow
PageDeleteDone ==
  /\ response.op = "delete"
  /\ page' = [listed |-> page.listed \ {response.id}, toast |-> DeletedToast]
  /\ response' = NoResponse
  /\ UNCHANGED <<users, reviews, movies, tx, ops, watchlist, wtx, profiles, ext>>

\* the response of any other request reaches its caller
DeliverOther == response.op # "delete" /\ Deliver

NextPage ==
  \/ InsertRequest(Users)
  \/ LoadMyReviews
  \/ PageDeleteRequest
  \/ \E t \in Sessions : TriggerRecompute(t)
  \/ \E t \in Sessions : TriggerFault(t)
  \/ \E t \in Sessions : CommitTx(t)
  \/ PageDeleteDone
  \/ DeliverOther

SpecPage == Init /\ [][NextPage]_vars

---------------------------------------------------------------------------
\* The watchlist button of the Movies, Search, Home and MovieDetail pages

\* the movies a page shows a button for: rows of public.movies, and a search
\* result of the upstream movie API that has no row in public.movies
ListedMovies == Movies \cup {"tmdb1"}

AddedToast == "Added to watchlist"
RemovedToast == "Removed from watchlist"

\* fetchWatchlistMovies: select('movie_id').eq('user_id', user.id), then
\* setWatchlistMovies(new Set(...))
ToggleLoad ==
  /\ toggle.pc = "idle"
  /\ response = NoResponse
  /\ toggle' = [toggle EXCEPT !.inList =
                   {w.movie_id : w \in {x \in VisibleWatch(PageUser, watchlist) : x.user_id = PageUser}}]
  /\ toggle' # toggle
  /\ UNCHANGED <<users, reviews, movies, tx, ops, response, watchlist, wtx, profiles, page, schema, form, search, fn>>

\* handleWatchlistToggle(movieId) is entered and reads the local state:
\* if (watchlist.includes(movieId)) ... else ...
ToggleClick(m) ==
  /\ toggle.pc = "idle"
  /\ response = NoResponse
  /\ \A t \in Sessions : wtx[t] = NoEntry
  /\ toggle' = [toggle EXCEPT !.pc = IF m \in toggle.inList THEN "deleting" ELSE "inserting",
                              !.movie = m]
  /\ UNCHANGED <<users, reviews, movies, tx, ops, response, watchlist, wtx, profiles, page, schema, form, search, fn>>

\* await supabase.from('watchlist').insert({ user_id: user.id, movie_id: movieId })
ToggleInsert ==
  /\ toggle.pc = "inserting"
  /\ \A t \in Sessions : wtx[t] = NoEntry
  /\ \E t \in Sessions : InsertWatch(t, PageUser, PageUser, toggle.movie)

\* await supabase.from('watchlist').delete().eq('user_id', user.id).eq('movie_id', movieId)
ToggleDelete ==
  /\ toggle.pc = "deleting"
  /\ DeleteWatch(PageUser, PageUser, {toggle.movie})

\* the await returns: the result is not destructured, so whatever the response
\* the local state is set and the toast of the branch is shown
ToggleDone ==
  /\ toggle.pc \in {"inserting", "deleting"}
  /\ response.op \in {"watch_insert", "watch_delete"}
  /\ toggle' = [inList |-> IF toggle.pc = "inserting" THEN toggle.inList \cup {toggle.movie}
                                                        ELSE toggle.inList \ {toggle.movie},
                pc |-> "idle",
                movie |-> "none",
                toast |-> IF toggle.pc = "inserting" THEN AddedToast ELSE RemovedToast]
  /\ response' = NoResponse
  /\ UNCHANGED <<users, reviews, movies, tx, ops, watchlist, wtx, profiles, page, schema, form, search, fn>>

\* the same user adds or removes a movie on another page while this one is at rest
OtherPageAdd ==
  /\ toggle.pc = "idle"
  /\ \E t \in Sessions : WatchFree(t) /\ \E m \in Movies : InsertWatch(t, PageUser, PageUser, m)

OtherPageRemove ==
  /\ toggle.pc = "idle"
  /\ \E m \in Movies : DeleteWatch(PageUser, PageUser, {m})

\* the response of the other page's request reaches that page
DeliverIdle == toggle.pc = "idle" /\ Deliver

NextToggle ==
  \/ ToggleLoad
  \/ \E m \in ListedMovies : ToggleClick(m)
  \/ ToggleInsert
  \/ ToggleDelete
  \/ \E t \in Sessions : CommitWatch(t)
  \/ ToggleDone
  \/ OtherPageAdd
  \/ OtherPageRemove
  \/ DeliverIdle

SpecToggle == Init /\ [][NextToggle]_vars

---------------------------------------------------------------------------
\* ReviewForm

\* the movieId prop of the form
FormMovie == "m1"

\* what can be typed into the textarea, as sequences of characters
FormTexts == {<<>>, <<" ">>, <<"a">>, <<" ", "a", " ">>}

IsSpace(c) == c = " "

\* String.prototype.trim(): leading and trailing white space removed
RECURSIVE TrimLeft(_)
TrimLeft(txt) == IF txt # <<>> /\ IsSpace(Head(txt)) THEN TrimLeft(Tail(txt)) ELSE txt

RECURSIVE TrimRight(_)
TrimRight(txt) ==
  IF txt # <<>> /\ IsSpace(txt[Len(txt)]) THEN TrimRight(SubSeq(txt, 1, Len(txt) - 1)) ELSE txt

Trim(txt) == TrimRight(TrimLeft(txt))

\* the stored value of a text: empty, white space only, or with visible characters
TextValue(txt) ==
  IF txt = <<>> THEN ""
  ELSE IF \A i \in 1..Len(txt) : IsSpace(txt[i]) THEN "blank"
  ELSE "text"

\* a form that sends the text as typed: reviewText || null
ReviewTextOf_Untrimmed(txt) == IF txt = <<>> THEN NULL ELSE TextValue(txt)

\* review_text: reviewText.trim() || null (the empty string is falsy)
ReviewTextOf(txt) == IF Trim(txt) = <<>> THEN NULL ELSE TextValue(Trim(txt))

SubmittedToast == "Review submitted"

\* useAuth() delivers the signed-in user, or none
FormSignIn ==
  /\ form.pc = "idle"
  /\ form.user = NULL
  /\ form' = [form EXCEPT !.user = PageUser]
  /\ UNCHANGED <<users, reviews, movies, tx, ops, response, watchlist, wtx, profiles, page, schema, toggle, search, fn>>

FormSignOut ==
  /\ form.pc = "idle"
  /\ form.user # NULL
  /\ form' = [form EXCEPT !.user = NULL]
  /\ UNCHANGED <<users, reviews, movies, tx, ops, response, watchlist, wtx, profiles, page, schema, toggle, search, fn>>

\* the star buttons [1, 2, 3, 4, 5]: onClick={() => setRating(star)}
SetRating(r) ==
  /\ form.rating # r
  /\ form' = [form EXCEPT !.rating = r]
  /\ UNCHANGED <<users, reviews, movies, tx, ops, response, watchlist, wtx, profiles, page, schema, toggle, search, fn>>

\* the textarea: onChange={(e) => setReviewText(e.target.value)}
SetReviewText(txt) ==
  /\ form.text # txt
  /\ form' = [form EXCEPT !.text = txt]
  /\ UNCHANGED <<users, reviews, movies, tx, ops, response, watchlist, wtx, profiles, page, schema, toggle, search, fn>>

\* the submit event can reach the form: the button is not disabled by submitting
\* (disabled={rating === 0 || submitting}; a rating of 0 is left to the handler's test)
SubmitEnabled == ~form.submitting

\* handleSubmit up to the request: if (!user || rating === 0) return;
\* setSubmitting(true); the insert's body is built from the state of this render
FormSubmit ==
  /\ SubmitEnabled
  /\ response = NoResponse
  /\ IF form.user = NULL \/ form.rating = 0
       THEN form' = [form EXCEPT !.last = "ignored"]
     ELSE /\ ops < MaxOps
          /\ form' = [form EXCEPT !.submitting = TRUE,
                                  !.pc = "active",
                                  !.last = "accepted",
                                  !.body = [user_id |-> form.user, movie_id |-> FormMovie,
                                            rating |-> form.rating,
                                            review_text |-> ReviewTextOf(form.text)]]
  /\ UNCHANGED <<users, reviews, movies, tx, ops, response, watchlist, wtx, profiles, page, schema, toggle, search, fn>>

\* the handler has not sent its request yet
FormUnsent == form.pc = "active" /\ response = NoResponse /\ \A t \in Sessions : ~InFlight(t)

\* await supabase.from('reviews').insert({ user_id, movie_id, rating, review_text })
FormInsert ==
  /\ FormUnsent
  /\ \E t \in Sessions : Free(t) /\
        InsertReview(t, form.body.user_id, form.body.user_id, form.body.movie_id,
                     form.body.rating, form.body.review_text)

\* a handler that does not look at the error of the response
FormDone_IgnoresError ==
  /\ form.pc = "active"
  /\ response.op = "insert"
  /\ form' = [form EXCEPT !.toast = SubmittedToast, !.submitted = @ + 1,
                          !.submitting = FALSE, !.pc = "idle"]
  /\ response' = NoResponse
  /\ UNCHANGED <<users, reviews, movies, tx, ops, watchlist, wtx, profiles, page, schema, toggle, search, fn>>

\* a handler that resets submitting on the success path only
FormDone_NoFinally ==
  /\ form.pc = "active"
  /\ response.op = "insert"
  /\ form' = IF response.code = "ok"
               THEN [form EXCEPT !.toast = SubmittedToast, !.submitted = @ + 1,
                                 !.submitting = FALSE, !.pc = "idle"]
             ELSE [form EXCEPT !.toast = ErrorToast, !.pc = "idle"]
  /\ response' = NoResponse
  /\ UNCHANGED <<users, reviews, movies, tx, ops, watchlist, wtx, profiles, page, schema, toggle, search, fn>>

\* the await returns: if (error) throw error; toast "Review submitted";
\* onReviewSubmitted()  --  catch: toast "Error"  --  finally: setSubmitting(false)
FormDone ==
  /\ form.pc = "active"
  /\ response.op = "insert"
  /\ form' = IF response.code = "ok"
               THEN [form EXCEPT !.toast = SubmittedToast, !.submitted = @ + 1,
                                 !.submitting = FALSE, !.pc = "idle"]
             ELSE [form EXCEPT !.toast = ErrorToast, !.submitting = FALSE, !.pc = "idle"]
  /\ response' = NoResponse
  /\ UNCHANGED <<users, reviews, movies, tx, ops, watchlist, wtx, profiles, page, schema, toggle, search, fn>>

NextForm ==
  \/ FormSignIn
  \/ FormSignOut
  \/ \E r \in MinRating..MaxRating : SetRating(r)
  \/ \E txt \in FormTexts : SetReviewText(txt)
  \/ FormSubmit
  \/ FormInsert
  \/ \E t \in Sessions : TriggerRecompute(t)
  \/ \E t \in Sessions : TriggerFault(t)
  \/ \E t \in Sessions : CommitTx(t)
  \/ FormDone

SpecForm == Init /\ [][NextForm]_vars

\* the request is sent once the handler has built it, the database finishes the
\* statement it has begun, and the awaiting handler runs when the response is there
SpecFormFair ==
  /\ SpecForm
  /\ WF_vars(FormInsert)
  /\ WF_vars(\E t \in Sessions : TriggerRecompute(t))
  /\ WF_vars(\E t \in Sessions : CommitTx(t))
  /\ WF_vars(FormDone)

---------------------------------------------------------------------------
\* The search-movies function

\* the search strings typed or sent: empty, one space, two titles
SearchInputs == {<<>>, <<" ">>, <<"a">>, <<"b">>}
\* the query member of a request body: absent, a string, or a number
QueryInputs ==
  {NoQuery, [kind |-> "number", chars |-> <<>>]} \cup {[kind |-> "string", chars |-> q] : q \in SearchInputs}
\* the page member of a request body: absent, or a page number
PageInputs == {NoPage} \cup {[given |-> TRUE, n |-> n] : n \in 1..2}
\* requests: the preflight, a body that is not JSON, and JSON bodies
FnRequests ==
  {[method |-> "OPTIONS", parsed |-> FALSE, query |-> NoQuery, page |-> NoPage],
   [method |-> "POST", parsed |-> FALSE, query |-> NoQuery, page |-> NoPage]}
    \cup {[method |-> "POST", parsed |-> TRUE, query |-> q, page |-> p] : q \in QueryInputs, p \in PageInputs}
\* what fetch(searchUrl) meets: a result page, a non-OK status, a network failure,
\* an OK response whose JSON has no results array
Upstreams == {"ok", "http_error", "network_error", "bad_json"}

\* the upstream catalogue: "a" has three movies on two pages, "b" one movie
UpstreamPages(q) == IF Trim(q) = <<"a">> THEN 2 ELSE IF Trim(q) = <<"b">> THEN 1 ELSE 0
UpstreamTotal(q) == IF Trim(q) = <<"a">> THEN 3 ELSE IF Trim(q) = <<"b">> THEN 1 ELSE 0
UpstreamCount(q, p) ==
  IF Trim(q) = <<"a">> /\ p = 1 THEN 2
  ELSE IF Trim(q) = <<"a">> /\ p = 2 THEN 1
  ELSE IF Trim(q) = <<"b">> /\ p = 1 THEN 1
  ELSE 0
\* data.results.map(...): the movies of one result page
MoviesOf(q, p) == IF UpstreamCount(q, p) = 0 THEN NoMovies ELSE [query |-> Trim(q), page |-> p, n |-> UpstreamCount(q, p)]

\* const { query, page = 1 } = await req.json(): the default applies to an absent page
PageOf(req) == IF req.page.given THEN req.page.n ELSE 1

\* !query: absent or the empty string
Falsy(q) == q.kind = "absent" \/ (q.kind = "string" /\ q.chars = <<>>)

\* a test of the query without trim()
QueryBlank_NoTrim(q) == Falsy(q)

\* !query || query.trim().length === 0
QueryBlank(q) == Falsy(q) \/ (q.kind = "string" /\ Trim(q.chars) = <<>>)

\* new Response(JSON.stringify({ error }), { status })
Failure(status, msg, called) ==
  [status |-> status, error |-> msg, movies |-> NoMovies, total_pages |-> 0,
   total_results |-> 0, current_page |-> 0, called |-> called]

\* the serve handler: the reply to a request, given the key and what upstream does
SearchMovies(req, key, up) ==
  IF req.method = "OPTIONS" THEN [NoReply EXCEPT !.status = 200]
  ELSE IF ~req.parsed THEN Failure(500, "thrown", FALSE)
  ELSE IF QueryBlank(req.query) THEN Failure(400, "Search query is required", FALSE)
  ELSE IF req.query.kind # "string" THEN Failure(500, "thrown", FALSE)
  ELSE IF ~key THEN Failure(500, "TMDB API key not configured", FALSE)
  ELSE IF up = "network_error" THEN Failure(500, "thrown", TRUE)
  ELSE IF up = "http_error" THEN Failure(500, "TMDB API error", TRUE)
  ELSE IF up = "bad_json" THEN Failure(500, "thrown", TRUE)
  ELSE [status |-> 200, error |-> NULL,
        movies |-> MoviesOf(req.query.chars, PageOf(req)),
        total_pages |-> UpstreamPages(req.query.chars),
        total_results |-> UpstreamTotal(req.query.chars),
        current_page |-> PageOf(req), called |-> TRUE]

\* the function serves one request
FnServe(req, up) ==
  /\ fn' = [fn EXCEPT !.req = req, !.up = up, !.reply = SearchMovies(req, fn.key, up)]
  /\ UNCHANGED <<users, reviews, movies, tx, ops, response, watchlist, wtx, profiles, page, schema, toggle, form, search>>

\* the function is deployed with or without the TMDB_API_KEY secret
InitFn ==
  /\ users = Users
  /\ reviews = {}
  /\ movies = [m \in Movies |-> [average_rating |-> 0, total_reviews |-> 0]]
  /\ tx = [t \in Sessions |-> IdleTx]
  /\ ops = 0
  /\ response = NoResponse
  /\ watchlist = {}
  /\ wtx = [t \in Sessions |-> NoEntry]
  /\ profiles = {[user_id |-> u, username |-> u] : u \in Users}
  /\ page = [listed |-> {}, toast |-> NoToast]
  /\ schema = Migrated
  /\ toggle = IdleToggle
  /\ form = IdleForm
  /\ search = IdleSearch
  /\ fn \in {[IdleFn EXCEPT !.key = k] : k \in BOOLEAN}

NextFn == \E req \in FnRequests, up \in Upstreams : FnServe(req, up)

SpecFn == InitFn /\ [][NextFn]_vars

---------------------------------------------------------------------------
\* The Search page

MaxSearches == 3

\* onChange={(e) => setSearchQuery(e.target.value)}
SetSearchQuery(q) ==
  /\ search.query # q
  /\ search' = [search EXCEPT !.query = q]
  /\ UNCHANGED <<users, reviews, movies, tx, ops, response, watchlist, wtx, profiles, page, schema, toggle, form, fn>>

\* handleSearch(p) up to the request: a blank query empties the list and returns;
\* otherwise setLoading(true) and the request { query: searchQuery, page } is sent
HandleSearch(p) ==
  /\ Len(search.calls) < MaxSearches
  /\ IF Trim(search.query) = <<>>
       THEN search' = [search EXCEPT !.results = NoMovies,
                                     !.calls = Append(@, [query |-> search.query, page |-> p, state |-> "cleared"])]
       ELSE search' = [search EXCEPT !.loading = TRUE,
                                     !.calls = Append(@, [query |-> search.query, page |-> p, state |-> "pending"])]
  /\ UNCHANGED <<users, reviews, movies, tx, ops, response, watchlist, wtx, profiles, page, schema, toggle, form, fn>>

\* onKeyPress={(e) => e.key === 'Enter' && handleSearch(1)}
SearchEnter == HandleSearch(1)

\* the Search button: disabled={loading || !searchQuery.trim()}
SearchClick ==
  /\ ~search.loading
  /\ Trim(search.query) # <<>>
  /\ HandleSearch(1)

\* the pagination is rendered when searchResults.length > 0 and totalPages > 1
PagerShown == search.results.n > 0 /\ search.totalPages > 1

\* Previous: disabled={currentPage <= 1 || loading}
SearchPrevious ==
  /\ PagerShown
  /\ ~(search.currentPage <= 1 \/ search.loading)
  /\ HandleSearch(search.currentPage - 1)

\* Next: disabled={currentPage >= totalPages || loading}
SearchNext ==
  /\ PagerShown
  /\ ~(search.currentPage >= search.totalPages \/ search.loading)
  /\ HandleSearch(search.currentPage + 1)

\* the requests of the page that have no response yet
PendingCalls == {i \in 1..Len(search.calls) : search.calls[i].state = "pending"}

\* the request body of call i
CallRequest(i) ==
  [method |-> "POST", parsed |-> TRUE,
   query |-> [kind |-> "string", chars |-> search.calls[i].query],
   page |-> [given |-> TRUE, n |-> search.calls[i].page]]

\* handleSearch after the await, for the response of call i: functions.invoke
\* returns an error for a non-2xx status, which is thrown; otherwise
\* setSearchResults, setTotalPages, setTotalResults, setCurrentPage(page);
\* finally setLoading(false)
SearchResponse(i, up) ==
  /\ i \in PendingCalls
  /\ LET reply == SearchMovies(CallRequest(i), fn.key, up) IN
       search' =
         IF reply.status = 200
           THEN [search EXCEPT !.results = reply.movies, !.totalPages = reply.total_pages,
                               !.totalResults = reply.total_results,
                               !.currentPage = search.calls[i].page,
                               !.loading = FALSE, !.calls[i].state = "ok"]
         ELSE [search EXCEPT !.toast = ErrorToast, !.loading = FALSE, !.calls[i].state = "error"]
  /\ UNCHANGED <<users, reviews, movies, tx, ops, response, watchlist, wtx, profiles, page, schema, toggle, form, fn>>

NextSearch ==
  \/ \E q \in SearchInputs : SetSearchQuery(q)
  \/ SearchEnter
  \/ SearchClick
  \/ SearchPrevious
  \/ SearchNext
  \/ \E i \in 1..MaxSearches, up \in Upstreams : SearchResponse(i, up)

SpecSearch == Init /\ [][NextSearch]_vars

---------------------------------------------------------------------------
\* Running the migration

\* supabase db push / the SQL editor runs the file
ApplyMigration ==
  /\ response = NoResponse
  /\ schema' = [Migrate110118(schema) EXCEPT !.runs = IF @ < MaxRuns THEN @ + 1 ELSE @]
  /\ UNCHANGED <<users, reviews, movies, tx, ops, response, watchlist, wtx, profiles, page, toggle, form, search, fn>>

\* the policies an administrator drops between two runs: those of movies and reviews
DriftPolicies == {p \in Policies : p.tbl \in {"movies", "reviews"}}

\* DROP POLICY by an administrator between two runs
DropPolicy(p) ==
  /\ p \in schema.policies
  /\ schema' = [schema EXCEPT !.policies = @ \ {p}]
  /\ UNCHANGED <<users, reviews, movies, tx, ops, response, watchlist, wtx, profiles, page, toggle, form, search, fn>>

\* DROP TRIGGER by an administrator between two runs
DropTrigger(g) ==
  /\ g \in schema.triggers
  /\ schema' = [schema EXCEPT !.triggers = @ \ {g}]
  /\ UNCHANGED <<users, reviews, movies, tx, ops, response, watchlist, wtx, profiles, page, toggle, form, search, fn>>

\* DELETE of a row of public.movies by an administrator between two runs
DeleteMovieRow ==
  /\ schema.rows > 0
  /\ schema' = [schema EXCEPT !.rows = @ - 1]
  /\ UNCHANGED <<users, reviews, movies, tx, ops, response, watchlist, wtx, profiles, page, toggle, form, search, fn>>

\* the migration meets an empty database or one set up by migration 20250831105329
InitMigrate ==
  /\ users = Users
  /\ reviews = {}
  /\ movies = [m \in Movies |-> [average_rating |-> 0, total_reviews |-> 0]]
  /\ tx = [t \in Sessions |-> IdleTx]
  /\ ops = 0
  /\ response = NoResponse
  /\ watchlist = {}
  /\ wtx = [t \in Sessions |-> NoEntry]
  /\ profiles = {[user_id |-> "u1", username |-> "ann"], [user_id |-> "u2", username |-> "bob"]}
  /\ page = [listed |-> {}, toast |-> NoToast]
  /\ schema \in {EmptySchema, Schema105329}
  /\ toggle = IdleToggle
  /\ form = IdleForm
  /\ search = IdleSearch
  /\ fn = IdleFn

NextMigrate ==
  \/ ApplyMigration
  \/ \E p \in DriftPolicies : DropPolicy(p)
  \/ \E g \in RatingTriggers : DropTrigger(g)
  \/ DeleteMovieRow

SpecMigrate == InitMigrate /\ [][NextMigrate]_vars

---------------------------------------------------------------------------
\* Properties

Quiescent == \A t \in Sessions : tx[t].pc = "idle"

AggregateOf(rs, m) == [average_rating |-> AvgRating(rs, m), total_reviews |-> CountReviews(rs, m)]

\* the review id names a committed row that actor a did not write
NotAuthor(a, id) == \E x \in reviews : x.id = id /\ x.user_id # a

\* connection t takes a request of kind op in this step: the request is either
\* answered at once or leaves a pending change of that kind
RequestStep(t, op) == Free(t) /\ (response'.op = op \/ tx'[t].op = op)

\* C1: in every committed state, each movie's total_reviews equals the number
\* of review rows whose movie_id is that movie
C1_TotalReviewsIsCount ==
  \A m \in Movies : movies[m].total_reviews = CountReviews(reviews, m)

\* C2: in every committed state, each movie's average_rating is the mean of its
\* reviews' ratings rounded to two decimals (between 1.00 and 5.00), and 0.00
\* when the movie has no review
C2_AverageIsRoundedMean ==
  \A m \in Movies :
    /\ movies[m].average_rating = AvgRating(reviews, m)
    /\ ReviewsOf(reviews, m) # {} =>
         /\ movies[m].average_rating >= MinRating * RatingScale
         /\ movies[m].average_rating <= MaxRating * RatingScale

\* C3: once concurrent inserts, updates and deletes of reviews of a movie have
\* all committed, the movie's aggregate is the one computed from the final set
\* of its reviews: no recomputation is lost
C3_NoLostRecompute ==
  Quiescent => \A m \in Movies : movies[m] = AggregateOf(reviews, m)

\* C4: a change of a review whose aggregate recomputation fails is undone as a
\* whole: until its commit a pending change is in no committed row, and the
\* failing step leaves reviews and aggregates as they were, drops the pending
\* change and answers with the trigger's error
C4_PendingInvisible ==
  \A t \in Sessions : InFlight(t) =>
    /\ tx[t].old # NoRow => tx[t].old \in reviews
    /\ tx[t].old = NoRow => \A r \in reviews : r.id # tx[t].new.id

C4_FaultRollsBack ==
  /\ []C4_PendingInvisible
  /\ [][ (response = NoResponse /\ response'.code = "trigger_error") =>
           /\ reviews' = reviews
           /\ movies' = movies
           /\ \E t \in Sessions :
                /\ InFlight(t)
                /\ tx' = [tx EXCEPT ![t] = IdleTx]
                /\ response'.op = tx[t].op ]_vars

C4_Witness == response.code = "trigger_error" /\ Quiescent

\* C5: no two committed reviews have the same user_id and movie_id, whatever
\* inserts and updates were tried, one after another or at the same time
C5_OneReviewPerUserMovie ==
  \A r1, r2 \in reviews :
    (r1.user_id = r2.user_id /\ r1.movie_id = r2.movie_id) => r1 = r2

C5_Witness ==
  /\ response.op = "update"
  /\ response.code = "unique_violation"
  /\ Cardinality(reviews) >= 2

\* C6: an insert of a review with a valid rating, for a user and movie that
\* already have a committed review, is answered with the unique violation and
\* changes no review, no aggregate and no transaction
C6_DuplicateInsertRejected ==
  [][ \A t \in Sessions : RequestStep(t, "insert") =>
        \A u \in Users, m \in Movies :
          (\E x \in reviews : x.user_id = u /\ x.movie_id = m) =>
            \A a \in {b \in Actors : ReviewInsertCheck(b, [user_id |-> u])},
               r \in {q \in RatingInputs : RatingCheck(q)}, txt \in TextInputs :
              InsertReview(t, a, u, m, r, txt)
              => /\ response' = [op |-> "insert", id |-> 0, code |-> "unique_violation", rows |-> 0]
                 /\ UNCHANGED <<users, reviews, movies, tx, ops>> ]_vars

C6_Witness ==
  /\ response.op = "insert"
  /\ response.code = "unique_violation"
  /\ reviews # {}

\* C7: an update or delete of a review by a signed-in user who is not its
\* author is answered with a permission error
C7_NonAuthorGetsError ==
  [][ \A t \in Sessions : (RequestStep(t, "update") \/ RequestStep(t, "delete")) =>
        \A a \in Users, id \in {x.id : x \in reviews} :
          ( /\ NotAuthor(a, id)
            /\ \/ DeleteReview(t, a, id)
               \/ \E patch \in Patches : UpdateReview(t, a, id, patch) )
          => response'.code = "insufficient_privilege" ]_vars

\* C8: an update or delete of a review by a signed-in user who is not its
\* author changes no review and no aggregate, and leaves nothing pending
C8_NonAuthorChangesNothing ==
  [][ \A t \in Sessions : (RequestStep(t, "update") \/ RequestStep(t, "delete")) =>
        \A a \in Users, id \in {x.id : x \in reviews} :
          ( /\ NotAuthor(a, id)
            /\ \/ DeleteReview(t, a, id)
               \/ \E patch \in Patches : UpdateReview(t, a, id, patch) )
          => UNCHANGED <<users, reviews, movies, tx, ops>> ]_vars

C8_Witness ==
  /\ response.op \in {"update", "delete"}
  /\ response.code = "ok"
  /\ response.rows = 0
  /\ \E x \in reviews : x.id = response.id

\* C9: the commit of a delete that removes the last review of a movie leaves
\* that movie, the deleted row's movie, with average_rating 0.00 and
\* total_reviews 0
C9_LastDeleteResets ==
  [][ \A t \in Sessions :
        ( /\ CommitTx(t)
          /\ tx[t].op = "delete"
          /\ ReviewsOf(reviews', tx[t].old.movie_id) = {} )
        => movies'[tx[t].old.movie_id] = [average_rating |-> 0, total_reviews |-> 0] ]_vars

\* C10: an insert, or an update of an existing review, with a rating outside
\* 1..5 is rejected with an error and writes nothing, and no committed review
\* has a rating outside 1..5
C10_BadRatingRejected ==
  /\ [](\A x \in reviews : RatingCheck(x.rating))
  /\ [][ \A t \in Sessions : (RequestStep(t, "insert") \/ RequestStep(t, "update")) =>
         \A a \in Actors, r \in {q \in RatingInputs : ~RatingCheck(q)} :
           ( \/ \E u \in Users, m \in Movies, txt \in TextInputs :
                  InsertReview(t, a, u, m, r, txt)
             \/ \E id \in {x.id : x \in reviews} :
                  UpdateReview(t, a, id, [rating |-> r]) )
           => /\ response'.code \in {"check_violation", "insufficient_privilege"}
              /\ UNCHANGED <<users, reviews, movies, tx, ops>> ]_vars

\* C11: no step changes the movie_id of a committed review: a review that is in
\* the table before and after a step has the movie_id it had
C11_MovieIdNeverChanges ==
  [][ \A r \in reviews, q \in reviews' : r.id = q.id => r.movie_id = q.movie_id ]_vars

\* C13: when a review mutation B of a movie runs its recomputation after an
\* earlier mutation A of that movie has committed a review, the aggregate B
\* stores for the movie is the one of the committed reviews, A's effect
\* included, with B's own change applied.  Stated for SpecSeq, where every
\* mutation begins after the ones before it have ended.
C13_SequentialRecomputeSeesCommitted ==
  [][ \A t \in Sessions :
        ( /\ TriggerRecompute(t)
          /\ ReviewsOf(reviews, TargetMovie(tx[t].old, tx[t].new)) \ {tx[t].old} # {} )
        => LET target == TargetMovie(tx[t].old, tx[t].new)
           IN /\ reviews \ {tx[t].old} \subseteq Snapshot(t)
              /\ tx'[t].upd = [movie |-> target,
                               average_rating |-> AvgRating(Snapshot(t), target),
                               total_reviews |-> CountReviews(Snapshot(t), target)] ]_vars

\* the movie whose aggregate the open transaction of connection t recomputes
TargetOf(t) == TargetMovie(tx[t].old, tx[t].new)

\* no transaction open on another connection than t targets movie m
NoOtherTargets(m, t) == \A s \in Sessions \ {t} : InFlight(s) => TargetOf(s) # m

C15_UserIdIsActor ==
  /\ [](\A t \in Sessions :
          (InFlight(t) /\ tx[t].actor \in Users /\ tx[t].new # NoRow)
          => tx[t].new.user_id = tx[t].actor)
  /\ [](\A a \in Readers : VisibleReviews(a) = reviews /\ VisibleMovies(a) = Movies)
  /\ [][ \A t \in Sessions : RequestStep(t, "insert") =>
           \A a \in Users : \A u \in Users \ {a}, m \in Movies, r \in RatingInputs, txt \in TextInputs :
             InsertReview(t, a, u, m, r, txt)
             => /\ response' = [op |-> "insert", id |-> 0, code |-> "insufficient_privilege", rows |-> 0]
                /\ UNCHANGED <<users, reviews, movies, tx, ops>> ]_vars

C15_Witness ==
  /\ response.op = "insert"
  /\ response.code = "insufficient_privilege"
  /\ reviews # {}

\* C17: an update or delete addressed to a review id that names no review is
\* answered with a not-found error and changes no review and no aggregate
C17_MissingReviewIsNotFound ==
  [][ \A t \in Sessions : (RequestStep(t, "update") \/ RequestStep(t, "delete")) =>
        \A a \in Actors, id \in TargetIds \ {x.id : x \in reviews} :
          ( \/ DeleteReview(t, a, id)
            \/ \E patch \in Patches : UpdateReview(t, a, id, patch) )
          => /\ response'.code = "not_found"
             /\ UNCHANGED <<users, reviews, movies, tx, ops>> ]_vars

\* the aggregator's store: the transaction of a review mutation commits the
\* values its trigger computed
AggregatorStore(t) ==
  /\ tx[t].pc = "triggered"
  /\ tx[t].upd # NoUpd
  /\ tx'[t] = IdleTx
  /\ movies' = ApplyUpd(movies, tx[t].upd)

\* the delete trigger fired by the rows a deleted account cascades to
CascadeStore ==
  /\ users' # users
  /\ \A m \in Movies : movies'[m] # movies[m] => movies'[m] = AggregateOf(reviews', m)

\* C12: average_rating and total_reviews change only when the aggregator stores
\* its recomputed values as part of a review mutation; a user's direct UPDATE of
\* movies changes no row, and no watchlist or profile request changes a movie
C12_OnlyAggregatorWritesRatings ==
  [][ /\ movies' # movies => (\E t \in Sessions : AggregatorStore(t)) \/ CascadeStore
      /\ (response' # response /\ response'.op = "update_movie")
            => movies' = movies /\ response'.rows = 0
      /\ (users' = users /\ (watchlist' # watchlist \/ wtx' # wtx \/ profiles' # profiles))
            => movies' = movies ]_vars

\* a direct write has been answered after the aggregator stored a count
C12_Witness ==
  /\ response.op = "update_movie"
  /\ response.rows = 0
  /\ reviews # {}
  /\ \E m \in Movies : movies[m].total_reviews > 0

\* C18: no two watchlist rows have the same (user_id, movie_id), whether the adds
\* come one after the other or overlap
C18_OneEntryPerUserMovie ==
  \A v \in watchlist : \A w \in watchlist :
     (v.user_id = w.user_id /\ v.movie_id = w.movie_id) => v = w

\* an add of a pair that is already on the watchlist has been refused
C18_Witness ==
  /\ response.op = "watch_insert"
  /\ response.code = "unique_violation"
  /\ watchlist # {}

\* C19: a watchlist request (add, remove, clear) leaves the reviews and both
\* aggregates of every movie as they were, and a review mutation leaves every
\* watchlist row as it was
C19_WatchlistAndReviewsIndependent ==
  [][ users' = users =>
        /\ (watchlist' # watchlist \/ wtx' # wtx)
              => reviews' = reviews /\ movies' = movies /\ tx' = tx
        /\ (reviews' # reviews \/ movies' # movies \/ tx' # tx)
              => watchlist' = watchlist /\ wtx' = wtx ]_vars

\* watchlist rows and reviews exist side by side, with a stored count
C19_Witness ==
  /\ watchlist # {}
  /\ reviews # {}
  /\ \E m \in Movies : movies[m].total_reviews > 0

\* C20: every account has exactly one profile, and no two profiles have the
\* same user_id or the same username
C20_OneProfilePerAccount ==
  /\ \A u \in users : Cardinality({q \in profiles : q.user_id = u}) = 1
  /\ \A p \in profiles : \A q \in profiles :
        (p.user_id = q.user_id \/ p.username = q.username) => p = q

\* a sign-up whose derived username is taken has been refused, next to an account
\* that was provisioned with its profile
C20_Witness ==
  /\ response.op = "signup"
  /\ response.code = "unique_violation"
  /\ \E u \in NewUsers : u \in users /\ \E q \in profiles : q.user_id = u

\* C16: when the delete sent from the My Reviews page returns an error or deletes
\* no row, the page keeps the review in its list and shows the error; it drops
\* the review and shows "Review deleted" only when the row was deleted
C16_DeleteFailureIsReported ==
  [][ (response.op = "delete" /\ response' = NoResponse) =>
        IF response.code = "ok" /\ response.rows = 1
          THEN page'.listed = page.listed \ {response.id} /\ page'.toast = DeletedToast
        ELSE page'.listed = page.listed /\ page'.toast = ErrorToast ]_vars

\* C21: an insert or update of the profile of user u sent under another identity
\* changes no profile row (the insert is refused, the update matches no row),
\* any change of a profile row happens in a request of its own user_id or in
\* the provisioning or removal of that account, and every reader sees every profile
C21_ProfileOwnedByItsUser ==
  /\ [](\A a \in Accounts \cup {Anon} : VisibleProfiles(a) = profiles)
  /\ [][\A a \in Accounts : \A u \in Accounts \ {a} : \A name \in Names :
          /\ InsertProfile(a, u, name)
                => profiles' = profiles /\ response'.code = "insufficient_privilege"
          /\ UpdateProfile(a, u, name)
                => profiles' = profiles /\ response'.rows = 0]_vars
  /\ [][(profiles' # profiles /\ users' = users)
          => \E u \in users : \E name \in Names :
                /\ profiles' \ profiles = {[user_id |-> u, username |-> name]}
                /\ InsertProfile(u, u, name) \/ UpdateProfile(u, u, name)]_vars

\* a user has renamed their own profile and a request on somebody else's
\* profile has been answered with no row changed
C21_Witness ==
  /\ response.op \in {"profile_insert", "profile_update"}
  /\ response.rows = 0
  /\ \E q \in profiles : q.user_id = "u1" /\ q.username # "ann"

\* C22: running the migration raises no error on any database it can meet (empty,
\* set up by migration 20250831105329, already migrated, or with objects
\* dropped since); running it again changes nothing; afterwards every policy and
\* trigger exists once; and the sample movies are inserted only into an empty
\* movies table
C22_MigrationIsIdempotent ==
  /\ [](LET once == Migrate110118(schema)
        IN /\ once.outcome = "ok"
           /\ Migrate110118(once) = once
           /\ once.policies = Policies
           /\ once.triggers = Triggers
           /\ once.tables = Tables /\ once.rls = Tables /\ once.functions = Functions)
  /\ [][ApplyMigration =>
          /\ schema'.outcome = "ok"
          /\ schema.rows > 0 => schema'.rows = schema.rows
          /\ schema.outcome = "ok" =>
                /\ schema'.movieCols = schema.movieCols
                /\ schema.policies \subseteq schema'.policies
                /\ schema.triggers \subseteq schema'.triggers
                /\ schema.policies = Policies /\ schema.triggers = Triggers /\ schema.rows > 0
                      => schema' = [schema EXCEPT !.runs = schema'.runs]]_vars

\* the migration has run twice on a database set up by migration 20250831105329
C22_Witness ==
  /\ schema.runs = 2
  /\ schema.outcome = "ok"
  /\ "cast" \in schema.movieCols
  /\ schema.policies = Policies

\* the commit of an update that moved a review to another movie, sent by actor a,
\* with no other review transaction open
MoveCommit(t, a) ==
  /\ CommitTx(t)
  /\ tx[t].op = "update"
  /\ tx[t].actor = a
  /\ tx[t].old.movie_id # tx[t].new.movie_id
  /\ \A s \in Sessions \ {t} : ~InFlight(s)

\* C23: when the owner of a review moves it from movie A to movie B, then after
\* the update both movies' total_reviews and average_rating equal the count and
\* mean of the reviews that reference them
C23_MoveKeepsBothMoviesConsistent ==
  [][\A t \in Sessions :
        MoveCommit(t, tx[t].old.user_id) =>
          /\ movies'[tx[t].old.movie_id] = AggregateOf(reviews', tx[t].old.movie_id)
          /\ movies'[tx[t].new.movie_id] = AggregateOf(reviews', tx[t].new.movie_id)]_vars

\* C24: when a watchlist toggle handler finishes, the page's local state for the
\* movie equals whether the user's row for it is in the table, and "Added to
\* watchlist" is shown only if the insert created the row
C24_ToggleStateMatchesTable ==
  [][(toggle.pc # "idle" /\ toggle'.pc = "idle") =>
        /\ toggle.movie \in toggle'.inList
              <=> \E w \in watchlist' : w.user_id = PageUser /\ w.movie_id = toggle.movie
        /\ toggle'.toast = AddedToast => response.code = "ok" /\ response.rows = 1]_vars

\* the step in which handleSubmit finishes
FormDoneStep == form.pc = "active" /\ form'.pc = "idle"

\* the review the form asked for is in the table
FormReviewStored(rs) ==
  \E r \in rs : /\ r.user_id = form.body.user_id
                 /\ r.movie_id = form.body.movie_id
                 /\ r.rating = form.body.rating
                 /\ r.review_text = form.body.review_text

\* C25: for every submission exactly one outcome happens when the handler
\* finishes: after an insert that returned without error (the review is in the
\* table) "Review submitted" is shown and onReviewSubmitted is called once; after
\* an insert that returned an error the error toast is shown and
\* onReviewSubmitted is not called; and no other step calls it
C25_SuccessOnlyForPersistedReview ==
  [][/\ FormDoneStep =>
           IF response.op = "insert" /\ response.code = "ok"
             THEN /\ FormReviewStored(reviews)
                  /\ form'.toast = SubmittedToast
                  /\ form'.submitted = form.submitted + 1
           ELSE /\ form'.toast = ErrorToast
                /\ form'.submitted = form.submitted
     /\ form'.submitted # form.submitted => FormDoneStep]_vars

\* the form has reported one success and, for a later submission, an error
C25_Witness ==
  /\ form.submitted = 1
  /\ form.toast = ErrorToast
  /\ form.pc = "idle"
  /\ reviews # {}

\* what an insert sent by the form may carry
FormBodyOk(b) ==
  /\ b.user_id = form.user
  /\ b.user_id \in Users
  /\ b.movie_id = FormMovie
  /\ b.rating \in MinRating..MaxRating
  /\ b.review_text \in {NULL, "text"}

\* C26: handleSubmit called with no user or with rating 0 sends nothing and
\* changes no state of the form; a request is prepared and sent only with a user
\* and a rating of 1..5, and it carries the user's id, the form's movie id and a
\* review_text that is null or has visible characters
C26_InsertOnlyWithUserAndRating ==
  /\ [][(FormSubmit /\ (form.user = NULL \/ form.rating = 0)) =>
            /\ [form' EXCEPT !.last = form.last] = form
            /\ tx' = tx /\ response' = response /\ reviews' = reviews]_vars
  /\ [](form.pc = "active" => FormBodyOk(form.body))
  /\ [](\A t \in Sessions : InFlight(t) =>
           /\ form.pc = "active"
           /\ tx[t].op = "insert"
           /\ tx[t].actor = form.user
           /\ [user_id |-> tx[t].new.user_id, movie_id |-> tx[t].new.movie_id,
               rating |-> tx[t].new.rating, review_text |-> tx[t].new.review_text] = form.body)

\* an insert of the form is under way whose text was blank and is sent as null
C26_Witness ==
  /\ \E t \in Sessions : InFlight(t) /\ tx[t].new.review_text = NULL
  /\ form.pc = "active"
  /\ form.rating \in MinRating..MaxRating

\* C27: submitting is true exactly while a submission of the form is under way:
\* every insert of the form is sent and answered while it is true, at most one
\* insert of the form is in flight, and it is reset to false when the request
\* has resolved, with or without an error
C27_SubmittingTracksRequest ==
  /\ [](/\ form.submitting <=> form.pc = "active"
        /\ ((\E t \in Sessions : InFlight(t)) \/ response.op = "insert") => form.submitting
        /\ Cardinality({t \in Sessions : InFlight(t)}) <= 1)
  /\ (form.submitting ~> ~form.submitting)

\* submitting has been reset after a request that returned an error
C27_Witness ==
  /\ ~form.submitting
  /\ form.last = "accepted"
  /\ form.toast = ErrorToast

\* every request of the Search page has its response and the call issued last
\* was answered with a result page
SearchSettled ==
  /\ Len(search.calls) > 0
  /\ PendingCalls = {}
  /\ search.calls[Len(search.calls)].state = "ok"

\* C28: once all responses of overlapping searches have arrived, the results, the
\* total pages, the total results and the current page shown are those of the
\* request issued last
C28_LatestSearchWins ==
  SearchSettled =>
    LET last == search.calls[Len(search.calls)] IN
      /\ search.results = MoviesOf(last.query, last.page)
      /\ search.totalPages = UpstreamPages(last.query)
      /\ search.totalResults = UpstreamTotal(last.query)
      /\ search.currentPage = last.page

\* the request that was served by the function
FnServed == fn.req # NoRequest /\ fn.req.method = "POST"

\* the query of the served request is a string with a character that is not a space
FnQueryGiven ==
  /\ fn.req.parsed
  /\ fn.req.query.kind = "string"
  /\ \E i \in 1..Len(fn.req.query.chars) : fn.req.query.chars[i] # " "

\* the query of the served request is absent, empty or spaces only
FnQueryMissing ==
  /\ fn.req.parsed
  /\ \/ fn.req.query.kind = "absent"
     \/ /\ fn.req.query.kind = "string"
        /\ \A i \in 1..Len(fn.req.query.chars) : fn.req.query.chars[i] = " "

\* C29: search-movies calls upstream only for a non-blank query with a key
\* configured; a missing or blank query is answered 400, a missing key 500, an
\* upstream non-OK response or a thrown error 500 with an error body; a success
\* is produced only from a successful upstream response and its current_page is
\* the requested page, 1 when none was given
C29_SearchFunctionReplies ==
  FnServed =>
    /\ fn.reply.called => FnQueryGiven /\ fn.key
    /\ FnQueryMissing => fn.reply.status = 400 /\ fn.reply.error # NULL
    /\ (FnQueryGiven /\ ~fn.key) => fn.reply.status = 500 /\ fn.reply.error # NULL
    /\ (fn.reply.called /\ fn.up # "ok") => fn.reply.status = 500 /\ fn.reply.error # NULL
    /\ ~fn.req.parsed => fn.reply.status = 500 /\ fn.reply.error # NULL
    /\ fn.reply.status \in {200, 400, 500}
    /\ fn.reply.status = 200 =>
         /\ fn.reply.called /\ fn.up = "ok" /\ fn.reply.error = NULL
         /\ fn.reply.current_page = (IF fn.req.page.given THEN fn.req.page.n ELSE 1)
         /\ fn.reply.total_pages = UpstreamPages(fn.req.query.chars)

\* a query of spaces only was answered 400 without a call upstream, with the key configured
C29_Witness ==
  /\ FnServed
  /\ fn.key
  /\ fn.req.query = [kind |-> "string", chars |-> <<" ">>]
  /\ fn.reply.status = 400
  /\ ~fn.reply.called

\* the watchlist rows of user a
OwnWatch(a, ws) == {w \in ws : w.user_id = a}

\* the rows users other than a can have in the watchlist
OtherWatchRows(a) ==
  {[id |-> i, user_id |-> u, movie_id |-> m] : i \in 1..MaxOps, u \in Users \ {a}, m \in Movies}

\* C30: for a user a, every table that has a's rows and any rows of other users
\* shows a the same rows, in any watchlist query and in fetchWatchlist; and a
\* remove or a clear sent by a deletes no row of another user
C30_WatchlistDependsOnOwnRows ==
  /\ [](\A a \in Users : \A S \in SUBSET OtherWatchRows(a) :
          /\ VisibleWatch(a, OwnWatch(a, watchlist) \cup S) = VisibleWatch(a, watchlist)
          /\ FetchWatchlist(a, OwnWatch(a, watchlist) \cup S) = FetchWatchlist(a, watchlist))
  /\ [][\A a \in Users, u \in Users :
          \A ms \in {{m} : m \in Movies} \cup {Movies} :
            DeleteWatch(a, u, ms) => \A w \in watchlist \ watchlist' : w.user_id = a]_vars

\* a delete removed one row and left the row of the other user in the table
C30_Witness ==
  /\ response.op = "watch_delete"
  /\ response.rows = 1
  /\ Cardinality(watchlist) = 1

====
